---- MODULE Spec2Model ----
(***************************************************************************)
(* Model of llm-bridge: the request builder and the vendor clients         *)
(* (src/src/client.rs), the tool schema (src/src/tool.rs) and the response *)
(* model (src/src/response.rs).                                            *)
(*                                                                         *)
(* Rust values are represented as follows.                                 *)
(*   Option<T>      a sequence of length 0 (None) or 1 (Some(v) = <<v>>)   *)
(*   Result<T, E>   [tag |-> "Ok", val |-> v]  or  [tag |-> "Err", ...]    *)
(*   Vec<T>         a sequence                                             *)
(*   f64            [sign, exp, hi, lo]: the IEEE-754 binary64 fields, the *)
(*                  52-bit fraction split in two 26-bit halves             *)
(*   HashMap<K, V>  [map |-> function, order |-> the iteration order of    *)
(*                  this instance, a permutation of the keys]              *)
(*   serde_json object   a function from field names to values             *)
(*   JSON text      the object it denotes, a record; a field that holds a  *)
(*                  string or null holds <<s>> or <<>>; a text that is not *)
(*                  JSON is [not_json |-> the text]                        *)
(***************************************************************************)
EXTENDS Integers, Sequences, FiniteSets, TLC

VARIABLES
    builder,        \* the RequestBuilder: [client, model, messages, max_tokens,
                    \* temperature, system_prompt, tools], client being the
                    \* ClientLlm of the client it borrows
    rendered,       \* the caller's `let request = builder.render_request()`:
                    \* the Result<Value, ApiError> of each render_request call
                    \* made on the builder since its last setter call, in order
    user_calls,     \* the arguments of the user_message calls, in call order
    tool_adds,      \* the arguments of the add_tool calls, in call order
    tool_builder,   \* the caller's ToolBuilder, Option<[name, description,
                    \* parameters]>: None once build() has consumed it
    tool,           \* the caller's `let tool = builder.build()`: Option<Result<Tool, String>>
    anthropic_format, \* the caller's `tool.to_anthropic_format()`: Option<Value>
    openai_format,    \* the caller's `tool.to_openai_format()`: Option<Value>
    parameter_calls,  \* the arguments of the add_parameter and add_enum_parameter
                      \* calls made on the ToolBuilder, in call order
    posts,          \* the send_message calls made on the client by the builder's
                    \* send(): [request_body, result] each, in call order
    sent,           \* the caller's `builder.send().await`:
                    \* Option<Result<ResponseMessage, ApiError>>; send consumes
                    \* the builder
    body,           \* the text of a response body
    response,       \* what the body deserializes to:
                    \* Option<Result<ResponseMessage, serde_json::Error>>
    observed,       \* the caller's last accessor call on the response and what
                    \* it returned: Option<[op, out]>
    llm_client,     \* the client several threads share by reference:
                    \* [client_type, api_key]
    builders,       \* the RequestBuilder each thread made from the shared client
    setter_calls,   \* the setter calls each thread made on its builder, in order
    renders,        \* each thread's `builder.render_request()` since its last
                    \* setter call: Option<Result<Value, ApiError>>
    session,        \* the ChatSession the caller holds
    turns           \* the turns of the session so far: [before, text, result] each

request_vars == <<builder, rendered, user_calls, tool_adds, posts, sent>>
tool_vars == <<tool_builder, tool, anthropic_format, openai_format, parameter_calls>>
response_vars == <<body, response, observed>>
shared_vars == <<llm_client, builders, setter_calls, renders>>
session_vars == <<session, turns>>
vars == <<request_vars, tool_vars, response_vars, shared_vars, session_vars>>

----------------------------------------------------------------------------
(* Bounds *)

MaxMessages == 2
MaxTools == 2
MaxRenders == 2
MaxParameterCalls == 3
MaxBlocks == 2
MaxChoices == 2
MaxSetterCalls == 2
MaxTurns == 2

----------------------------------------------------------------------------
(* Rust's Option and Result *)

None == <<>>
Some(v) == <<v>>
is_some(o) == Len(o) = 1
is_none(o) == Len(o) = 0
unwrap(o) == o[1]
unwrap_or(o, d) == IF is_some(o) THEN o[1] ELSE d

Ok(v) == [tag |-> "Ok", val |-> v]
Err(e) == [tag |-> "Err", err |-> e]
is_ok(r) == r.tag = "Ok"
is_err(r) == r.tag = "Err"

----------------------------------------------------------------------------
(* f64 *)

F64_EXP_SPECIAL == 2047

F64(sign, exp, hi, lo) == [sign |-> sign, exp |-> exp, hi |-> hi, lo |-> lo]

NAN == F64(0, F64_EXP_SPECIAL, 33554432, 0)
INFINITY == F64(0, F64_EXP_SPECIAL, 0, 0)
NEG_INFINITY == F64(1, F64_EXP_SPECIAL, 0, 0)
DEFAULT_TEMP == F64(0, 0, 0, 0)

is_nan(f) == f.exp = F64_EXP_SPECIAL /\ (f.hi # 0 \/ f.lo # 0)
is_finite(f) == f.exp # F64_EXP_SPECIAL

\* `{}` of an f64 that is not finite, as format! prints it
fmt_f64(f) ==
    IF is_nan(f) THEN "NaN"
    ELSE IF f.exp = F64_EXP_SPECIAL THEN (IF f.sign = 1 THEN "-inf" ELSE "inf")
    ELSE "finite"

\* f as f32 as f64: f32 keeps 23 of the 52 fraction bits, the other 29 are
\* rounded away (to nearest, ties to even)
via_f32(f) ==
    IF ~is_finite(f) THEN f
    ELSE LET keep == f.hi \div 8
             rest == (f.hi % 8) * 67108864 + f.lo
             up == rest > 268435456 \/ (rest = 268435456 /\ keep % 2 = 1)
             k == IF up THEN keep + 1 ELSE keep
         IN  IF k = 8388608 THEN F64(f.sign, f.exp + 1, 0, 0)
             ELSE F64(f.sign, f.exp, k * 8, 0)

\* from_f64 going through the f32 of RequestBody.temperature
Number_from_f64_f32(f) == IF is_finite(f) THEN Some(via_f32(f)) ELSE None

\* from_f64 rejecting NaN only
Number_from_f64_nan_only(f) == IF is_nan(f) THEN None ELSE Some(f)

\* serde_json::Number::from_f64: None for NaN and the infinities
Number_from_f64(f) == IF is_finite(f) THEN Some(f) ELSE None

----------------------------------------------------------------------------
(* Inputs *)

ClientLlm == {"Anthropic", "OpenAI"}

DEFAULT_ANTHROPIC_MODEL == "claude-3-haiku-20240307"
DEFAULT_OPENAI_MODEL == "gpt-4o"
DEFAULT_MAX_TOKENS == 100

Models == {"custom-model"}
Texts == {"Hello!", "How are you?"}
MaxTokens == {500}
Temperatures == {F64(0, 1022, 40265318, 26843546),   \* 0.8
                 F64(0, 1019, 65444564, 11596412),   \* 0.12345
                 F64(1, 1023, 0, 0),                 \* -1.0
                 F64(0, 2046, 67108863, 67108863),   \* f64::MAX
                 NAN, INFINITY, NEG_INFINITY}
SystemPrompts == {"", "You are a helpful assistant."}

Message(role, content) == [role |-> role, content |-> content]

----------------------------------------------------------------------------
(* HashMap<String, ToolParameter> (src/src/tool.rs)                        *)

\* the orders in which a HashMap holding the keys S may iterate over them
Orders(S) == {o \in [1..Cardinality(S) -> S] : \A i, j \in DOMAIN o : i # j => o[i] # o[j]}

HashMap_new == [map |-> [k \in {} |-> k], order |-> <<>>]

keys(h) == DOMAIN h.map

\* HashMap::insert: the value of an existing key is replaced in place; a new
\* key lands wherever the hasher of this instance puts it (ord, one of the
\* orders of the new key set)
HashMap_insert_keep(h, k, v, ord) ==
    [map |-> [x \in keys(h) \cup {k} |-> IF x \in keys(h) THEN h.map[x] ELSE v],
     order |-> IF k \in keys(h) THEN h.order ELSE ord]

HashMap_insert(h, k, v, ord) ==
    [map |-> [x \in keys(h) \cup {k} |-> IF x = k THEN v ELSE h.map[x]],
     order |-> IF k \in keys(h) THEN h.order ELSE ord]

----------------------------------------------------------------------------
(* ToolBuilder and Tool (src/src/tool.rs)                                  *)

ToolNames == {"get_weather"}
ToolDescriptions == {"Get the current weather in a given location"}
ParameterNames == {"location", "unit"}
ParameterTypes == {"string", "number"}
ParameterDescriptions == {"The city and state"}
EnumValues == {<<"celsius", "fahrenheit">>}

ToolParameter(parameter_type, description, required, enum_values) ==
    [parameter_type |-> parameter_type, description |-> description,
     required |-> required, enum_values |-> enum_values]

ToolBuilder_new == [name |-> None, description |-> None, parameters |-> HashMap_new]

ToolBuilder_name(self, name) == [self EXCEPT !.name = Some(name)]

ToolBuilder_description(self, description) == [self EXCEPT !.description = Some(description)]

add_parameter(self, name, parameter_type, description, required, ord) ==
    [self EXCEPT !.parameters =
        HashMap_insert(@, name, ToolParameter(parameter_type, description, required, None), ord)]

add_enum_parameter(self, name, description, required, enum_values, ord) ==
    [self EXCEPT !.parameters =
        HashMap_insert(@, name, ToolParameter("string", description, required, Some(enum_values)), ord)]

build_description_first(self) ==
    IF is_none(self.description) THEN Err("Tool description is required")
    ELSE IF is_none(self.name) THEN Err("Tool name is required")
    ELSE Ok([name |-> unwrap(self.name), description |-> unwrap(self.description),
             parameters |-> self.parameters])

build(self) ==
    IF is_none(self.name) THEN Err("Tool name is required")
    ELSE IF is_none(self.description) THEN Err("Tool description is required")
    ELSE Ok([name |-> unwrap(self.name), description |-> unwrap(self.description),
             parameters |-> self.parameters])

property_no_enum(param) ==
    [type |-> param.parameter_type, description |-> param.description]

\* one entry of `properties`
property(param) ==
    IF is_some(param.enum_values)
    THEN [type |-> param.parameter_type, description |-> param.description,
          enum |-> unwrap(param.enum_values)]
    ELSE [type |-> param.parameter_type, description |-> param.description]

\* the names of the required parameters among the first n of the iteration
RECURSIVE required_upto(_, _)
required_upto(self, n) ==
    IF n = 0 THEN <<>>
    ELSE LET name == self.parameters.order[n]
             rest == required_upto(self, n - 1)
         IN  IF self.parameters.map[name].required THEN Append(rest, name) ELSE rest

process_tool_input(self) ==
    [properties |-> [name \in keys(self.parameters) |-> property(self.parameters.map[name])],
     required |-> required_upto(self, Len(self.parameters.order))]

to_anthropic_format(self) ==
    LET input == process_tool_input(self)
    IN  [name |-> self.name,
         description |-> self.description,
         input_schema |-> [type |-> "object",
                           properties |-> input.properties,
                           required |-> <<"location">>]]

to_openai_format(self) ==
    LET input == process_tool_input(self)
    IN  [type |-> "function",
         function |-> [name |-> self.name,
                       description |-> self.description,
                       parameters |-> [type |-> "object",
                                       properties |-> input.properties,
                                       required |-> input.required]]]

----------------------------------------------------------------------------
(* ApiError (src/src/error.rs)                                             *)

RequestError == [kind |-> "RequestError"]
ClientError(msg) == [kind |-> "ClientError", msg |-> msg]
ServerError(msg) == [kind |-> "ServerError", msg |-> msg]
ResponseParseError == [kind |-> "ResponseParseError"]
MissingMessages == [kind |-> "MissingMessages"]
InvalidUsage(msg) == [kind |-> "InvalidUsage", msg |-> msg]

----------------------------------------------------------------------------
(* RequestBuilder (src/src/client.rs)                                      *)

\* tools built with the ToolBuilder, for add_tool
NoParameterTool ==
    build(ToolBuilder_description(ToolBuilder_name(ToolBuilder_new, "get_time"),
                                  "Get the current time")).val

WeatherTool ==
    build(add_enum_parameter(
            add_parameter(
              ToolBuilder_description(ToolBuilder_name(ToolBuilder_new, "get_weather"),
                                      "Get the current weather in a given location"),
              "location", "string", "The city and state", TRUE, <<"location">>),
            "unit", "The unit of temperature", FALSE, <<"celsius", "fahrenheit">>,
            <<"location", "unit">>)).val

\* both parameters required, the enum one first in the iteration
CurrentWeatherTool ==
    build(add_enum_parameter(
            add_parameter(
              ToolBuilder_description(ToolBuilder_name(ToolBuilder_new, "get_current_weather"),
                                      "Get the current weather in a given location"),
              "location", "string", "The city and state", TRUE, <<"location">>),
            "format", "The temperature unit to use", TRUE, <<"celsius", "fahrenheit">>,
            <<"format", "location">>)).val

Tools == {NoParameterTool, WeatherTool, CurrentWeatherTool}

RequestBuilder_new(client) ==
    [client |-> client, model |-> None, messages |-> None, max_tokens |-> None,
     temperature |-> None, system_prompt |-> None, tools |-> None]

add_tool_front(self, t) ==
    IF is_some(self.tools)
    THEN [self EXCEPT !.tools = Some(<<t>> \o unwrap(self.tools))]
    ELSE [self EXCEPT !.tools = Some(<<t>>)]

add_tool(self, t) ==
    IF is_some(self.tools)
    THEN [self EXCEPT !.tools = Some(Append(unwrap(self.tools), t))]
    ELSE [self EXCEPT !.tools = Some(<<t>>)]

model(self, m) == [self EXCEPT !.model = Some(m)]

\* user_message replacing the sequence instead of appending to it
user_message_replace(self, message) ==
    [self EXCEPT !.messages = Some(<<Message("user", message)>>)]

user_message(self, message) ==
    IF is_some(self.messages)
    THEN [self EXCEPT !.messages = Some(Append(unwrap(self.messages), Message("user", message)))]
    ELSE [self EXCEPT !.messages = Some(<<Message("user", message)>>)]

max_tokens(self, n) == [self EXCEPT !.max_tokens = Some(n)]

temperature(self, t) == [self EXCEPT !.temperature = Some(t)]

system_prompt(self, p) == [self EXCEPT !.system_prompt = Some(p)]

\* render_model with the two vendor defaults exchanged
render_model_swapped(self) ==
    IF is_some(self.model) THEN unwrap(self.model)
    ELSE CASE self.client = "Anthropic" -> DEFAULT_OPENAI_MODEL
           [] self.client = "OpenAI" -> DEFAULT_ANTHROPIC_MODEL

\* the locals of render_request
render_model(self) ==
    IF is_some(self.model) THEN unwrap(self.model)
    ELSE CASE self.client = "Anthropic" -> DEFAULT_ANTHROPIC_MODEL
           [] self.client = "OpenAI" -> DEFAULT_OPENAI_MODEL

render_max_tokens(self) == unwrap_or(self.max_tokens, DEFAULT_MAX_TOKENS)

render_temperature(self) == unwrap_or(self.temperature, DEFAULT_TEMP)

render_temperature_number(self) == Number_from_f64(render_temperature(self))

render_system_prompt(self) == unwrap_or(self.system_prompt, "")

\* the Anthropic arm injecting the system prompt as a message, as the OpenAI arm does
render_anthropic_system_message(self) ==
    LET req == [model |-> render_model(self),
                messages |-> IF render_system_prompt(self) # ""
                             THEN Append(unwrap(self.messages),
                                         Message("system", render_system_prompt(self)))
                             ELSE unwrap(self.messages),
                max_tokens |-> render_max_tokens(self),
                temperature |-> unwrap(render_temperature_number(self)),
                system |-> render_system_prompt(self)]
    IN  IF is_some(self.tools)
        THEN req @@ ("tools" :> [i \in DOMAIN unwrap(self.tools) |->
                                    to_anthropic_format(unwrap(self.tools)[i])])
        ELSE req

\* the ClientLlm::Anthropic arm of render_request
render_anthropic(self) ==
    LET req == [model |-> render_model(self),
                messages |-> unwrap(self.messages),
                max_tokens |-> render_max_tokens(self),
                temperature |-> unwrap(render_temperature_number(self)),
                system |-> render_system_prompt(self)]
    IN  IF is_some(self.tools)
        THEN req @@ ("tools" :> [i \in DOMAIN unwrap(self.tools) |->
                                    to_anthropic_format(unwrap(self.tools)[i])])
        ELSE req

\* the OpenAI arm putting the system message first instead of last
render_openai_system_first(self) ==
    LET req == [model |-> render_model(self),
                messages |-> unwrap(self.messages),
                max_tokens |-> render_max_tokens(self),
                temperature |-> unwrap(render_temperature_number(self))]
        req2 == IF render_system_prompt(self) # ""
                THEN [req EXCEPT !.messages =
                        <<Message("system", render_system_prompt(self))>> \o @]
                ELSE req
    IN  IF is_some(self.tools)
        THEN req2 @@ ("tools" :> [i \in DOMAIN unwrap(self.tools) |->
                                     to_openai_format(unwrap(self.tools)[i])])
        ELSE req2

\* the ClientLlm::OpenAI arm of render_request
render_openai(self) ==
    LET req == [model |-> render_model(self),
                messages |-> unwrap(self.messages),
                max_tokens |-> render_max_tokens(self),
                temperature |-> unwrap(render_temperature_number(self))]
        req2 == IF render_system_prompt(self) # ""
                THEN [req EXCEPT !.messages =
                        Append(@, Message("system", render_system_prompt(self)))]
                ELSE req
    IN  IF is_some(self.tools)
        THEN req2 @@ ("tools" :> [i \in DOMAIN unwrap(self.tools) |->
                                     to_openai_format(unwrap(self.tools)[i])])
        ELSE req2

\* render_request with the checks in the other order in the OpenAI case only
render_request_openai_temperature_first(self) ==
    IF self.client = "OpenAI" /\ is_none(render_temperature_number(self))
    THEN Err(InvalidUsage(<<"Invalid temperature value: ", fmt_f64(render_temperature(self))>>))
    ELSE IF is_none(self.messages) THEN Err(MissingMessages)
    ELSE IF is_none(render_temperature_number(self))
    THEN Err(InvalidUsage(<<"Invalid temperature value: ", fmt_f64(render_temperature(self))>>))
    ELSE CASE self.client = "Anthropic" -> Ok(render_anthropic(self))
           [] self.client = "OpenAI" -> Ok(render_openai(self))

\* render_request validating the temperature before it looks at the messages
render_request_temperature_first(self) ==
    IF is_none(render_temperature_number(self))
    THEN Err(InvalidUsage(<<"Invalid temperature value: ", fmt_f64(render_temperature(self))>>))
    ELSE IF is_none(self.messages) THEN Err(MissingMessages)
    ELSE CASE self.client = "Anthropic" -> Ok(render_anthropic(self))
           [] self.client = "OpenAI" -> Ok(render_openai(self))

render_request(self) ==
    IF is_none(self.messages) THEN Err(MissingMessages)
    ELSE IF is_none(render_temperature_number(self))
    THEN Err(InvalidUsage(<<"Invalid temperature value: ", fmt_f64(render_temperature(self))>>))
    ELSE CASE self.client = "Anthropic" -> Ok(render_anthropic(self))
           [] self.client = "OpenAI" -> Ok(render_openai(self))

----------------------------------------------------------------------------
(* The response model (src/src/response.rs)                                *)

SeqsUpTo(S, n) == UNION {[1..k -> S] : k \in 0..n}

\* serde_json::Value::Null
JsonNull == [json_null |-> TRUE]

\* serde_json::from_str::<Value> on the `arguments` strings used here
Value_from_str(text) ==
    CASE text = "{\"location\":\"San Francisco, CA\"}" -> Ok([location |-> "San Francisco, CA"])
      [] text = "{}" -> Ok([k \in {} |-> k])
      [] OTHER -> Err(ResponseParseError)

\* format!("Function call: {}", name) on the function names used here
format_function_call(name) ==
    CASE name = "get_weather" -> "Function call: get_weather"
      [] name = "get_time" -> "Function call: get_time"

\* the untagged AnthropicContentBlock: Text is tried first and takes every
\* object that has `text` and `type`, then ToolUse; unknown fields are ignored
AnthropicContentBlock_deserialize(j) ==
    IF {"text", "type"} \subseteq DOMAIN j
    THEN Ok([variant |-> "Text", text |-> j.text, block_type |-> j.type])
    ELSE IF {"type", "id", "name", "input"} \subseteq DOMAIN j
    THEN Ok([variant |-> "ToolUse", block_type |-> j.type, id |-> j.id,
             name |-> j.name, input |-> j.input])
    ELSE Err(ResponseParseError)

AnthropicResponse_deserialize(j) ==
    IF /\ {"id", "role", "content", "model", "stop_reason", "usage"} \subseteq DOMAIN j
       /\ {"input_tokens", "output_tokens"} \subseteq DOMAIN j.usage
       /\ \A i \in DOMAIN j.content : is_ok(AnthropicContentBlock_deserialize(j.content[i]))
    THEN Ok([id |-> j.id,
             role |-> j.role,
             content |-> [i \in DOMAIN j.content |-> AnthropicContentBlock_deserialize(j.content[i]).val],
             model |-> j.model,
             stop_reason |-> j.stop_reason,
             stop_sequence |-> IF "stop_sequence" \in DOMAIN j THEN j.stop_sequence ELSE None,
             usage |-> [input_tokens |-> j.usage.input_tokens,
                        output_tokens |-> j.usage.output_tokens]])
    ELSE Err(ResponseParseError)

OpenAIToolCall_deserialize(j) ==
    IF /\ {"id", "type", "function"} \subseteq DOMAIN j
       /\ {"name", "arguments"} \subseteq DOMAIN j.function
    THEN Ok([id |-> j.id, call_type |-> j.type,
             function |-> [name |-> j.function.name, arguments |-> j.function.arguments]])
    ELSE Err(ResponseParseError)

OpenAIMessage_deserialize(j) ==
    IF /\ "role" \in DOMAIN j
       /\ "tool_calls" \in DOMAIN j =>
            \A i \in DOMAIN j.tool_calls : is_ok(OpenAIToolCall_deserialize(j.tool_calls[i]))
    THEN Ok([role |-> j.role,
             content |-> IF "content" \in DOMAIN j THEN j.content ELSE None,
             tool_calls |-> IF "tool_calls" \in DOMAIN j
                            THEN Some([i \in DOMAIN j.tool_calls |->
                                         OpenAIToolCall_deserialize(j.tool_calls[i]).val])
                            ELSE None])
    ELSE Err(ResponseParseError)

OpenAIChoice_deserialize(j) ==
    IF /\ {"index", "message", "finish_reason"} \subseteq DOMAIN j
       /\ is_ok(OpenAIMessage_deserialize(j.message))
    THEN Ok([index |-> j.index,
             message |-> OpenAIMessage_deserialize(j.message).val,
             finish_reason |-> j.finish_reason])
    ELSE Err(ResponseParseError)

OpenAIResponse_deserialize(j) ==
    IF /\ {"id", "object", "created", "model", "choices", "usage"} \subseteq DOMAIN j
       /\ {"prompt_tokens", "completion_tokens", "total_tokens"} \subseteq DOMAIN j.usage
       /\ \A i \in DOMAIN j.choices : is_ok(OpenAIChoice_deserialize(j.choices[i]))
    THEN Ok([id |-> j.id,
             object |-> j.object,
             created |-> j.created,
             model |-> j.model,
             choices |-> [i \in DOMAIN j.choices |-> OpenAIChoice_deserialize(j.choices[i]).val],
             usage |-> [prompt_tokens |-> j.usage.prompt_tokens,
                        completion_tokens |-> j.usage.completion_tokens,
                        total_tokens |-> j.usage.total_tokens]])
    ELSE Err(ResponseParseError)

ResponseMessage_Anthropic(r) == [variant |-> "Anthropic", response |-> r]
ResponseMessage_OpenAI(r) == [variant |-> "OpenAI", response |-> r]

\* the untagged ResponseMessage: the Anthropic shape is tried first
ResponseMessage_deserialize(j) ==
    IF is_ok(AnthropicResponse_deserialize(j))
    THEN Ok(ResponseMessage_Anthropic(AnthropicResponse_deserialize(j).val))
    ELSE IF is_ok(OpenAIResponse_deserialize(j))
    THEN Ok(ResponseMessage_OpenAI(OpenAIResponse_deserialize(j).val))
    ELSE Err(ResponseParseError)

first_message_last_choice(self) ==
    IF self.variant = "Anthropic"
    THEN IF Len(self.response.content) > 0
         THEN IF self.response.content[1].variant = "Text"
              THEN self.response.content[1].text
              ELSE ""
         ELSE ""
    ELSE IF Len(self.response.choices) > 0
         THEN LET choice == self.response.choices[Len(self.response.choices)]
              IN  IF is_some(choice.message.content) THEN unwrap(choice.message.content)
                  ELSE IF is_some(choice.message.tool_calls)
                       THEN IF Len(unwrap(choice.message.tool_calls)) > 0
                            THEN format_function_call(unwrap(choice.message.tool_calls)[1].function.name)
                            ELSE ""
                       ELSE ""
         ELSE ""

first_message(self) ==
    IF self.variant = "Anthropic"
    THEN IF Len(self.response.content) > 0
         THEN IF self.response.content[1].variant = "Text"
              THEN self.response.content[1].text
              ELSE ""
         ELSE ""
    ELSE IF Len(self.response.choices) > 0
         THEN LET choice == self.response.choices[1]
              IN  IF is_some(choice.message.content) THEN unwrap(choice.message.content)
                  ELSE IF is_some(choice.message.tool_calls)
                       THEN IF Len(unwrap(choice.message.tool_calls)) > 0
                            THEN format_function_call(unwrap(choice.message.tool_calls)[1].function.name)
                            ELSE ""
                       ELSE ""
         ELSE ""

ToolResponse(id, name, input) == [id |-> id, name |-> name, input |-> input]

\* response.content.iter().filter_map(..).collect()
RECURSIVE tool_uses(_)
tool_uses(content) ==
    IF content = <<>> THEN <<>>
    ELSE LET block == Head(content)
         IN  (IF block.variant = "ToolUse"
              THEN <<ToolResponse(block.id, block.name, block.input)>>
              ELSE <<>>) \o tool_uses(Tail(content))

\* the ToolResponse of one tool call
tool_call_response(tool_call) ==
    ToolResponse(tool_call.id, tool_call.function.name,
                 IF is_ok(Value_from_str(tool_call.function.arguments))
                 THEN Value_from_str(tool_call.function.arguments).val
                 ELSE JsonNull)

\* response.choices.iter().filter_map(..).flatten().map(..).collect()
RECURSIVE tool_calls(_)
tool_calls(choices) ==
    IF choices = <<>> THEN <<>>
    ELSE LET choice == Head(choices)
         IN  (IF is_some(choice.message.tool_calls)
              THEN [i \in DOMAIN unwrap(choice.message.tool_calls) |->
                      tool_call_response(unwrap(choice.message.tool_calls)[i])]
              ELSE <<>>) \o tool_calls(Tail(choices))

tools_drop_invalid(self) ==
    IF self.variant = "Anthropic"
    THEN IF tool_uses(self.response.content) = <<>> THEN None
         ELSE Some(tool_uses(self.response.content))
    ELSE LET parsed == SelectSeq(tool_calls(self.response.choices), LAMBDA t : t.input # JsonNull)
         IN  IF parsed = <<>> THEN None ELSE Some(parsed)

tools_empty(self) ==
    IF self.variant = "Anthropic"
    THEN Some(tool_uses(self.response.content))
    ELSE Some(tool_calls(self.response.choices))

tools(self) ==
    IF self.variant = "Anthropic"
    THEN IF tool_uses(self.response.content) = <<>> THEN None
         ELSE Some(tool_uses(self.response.content))
    ELSE IF tool_calls(self.response.choices) = <<>> THEN None
         ELSE Some(tool_calls(self.response.choices))

role(self) ==
    IF self.variant = "Anthropic" THEN self.response.role
    ELSE IF Len(self.response.choices) > 0 THEN self.response.choices[1].message.role
    ELSE ""

ResponseMessage_model(self) == self.response.model

stop_reason_last_choice(self) ==
    IF self.variant = "Anthropic" THEN self.response.stop_reason
    ELSE IF Len(self.response.choices) > 0
         THEN self.response.choices[Len(self.response.choices)].finish_reason
    ELSE ""

stop_reason(self) ==
    IF self.variant = "Anthropic" THEN self.response.stop_reason
    ELSE IF Len(self.response.choices) > 0 THEN self.response.choices[1].finish_reason
    ELSE ""

CommonUsage(input_tokens, output_tokens) ==
    [input_tokens |-> input_tokens, output_tokens |-> output_tokens]

usage_total(self) ==
    IF self.variant = "Anthropic"
    THEN CommonUsage(self.response.usage.input_tokens, self.response.usage.output_tokens)
    ELSE CommonUsage(self.response.usage.prompt_tokens, self.response.usage.total_tokens)

usage(self) ==
    IF self.variant = "Anthropic"
    THEN CommonUsage(self.response.usage.input_tokens, self.response.usage.output_tokens)
    ELSE CommonUsage(self.response.usage.prompt_tokens, self.response.usage.completion_tokens)

----------------------------------------------------------------------------
(* Response bodies                                                         *)

NotJson == [not_json |-> ""]

\* a vendor error object: JSON, of neither response shape
ErrorJson == [type |-> "error", error |-> [type |-> "authentication_error", message |-> "invalid x-api-key"]]

ContentBlockJsons ==
    {[type |-> "text", text |-> "Here's the weather information:"],
     [type |-> "text", text |-> "This is a text response."],
     [type |-> "tool_use", id |-> "toolu_1", name |-> "get_weather",
      input |-> [location |-> "San Francisco, CA"]],
     [type |-> "tool_use", id |-> "toolu_2", name |-> "get_time", input |-> [k \in {} |-> k]],
     [type |-> "tool_use", id |-> "toolu_3", name |-> "get_weather",
      input |-> [location |-> "San Francisco, CA"], text |-> "calling get_weather"],
     [type |-> "image"]}

AnthropicJson(content, reason) ==
    [id |-> "msg_1", type |-> "message", role |-> "assistant",
     model |-> "claude-3-haiku-20240307", content |-> content, stop_reason |-> reason,
     stop_sequence |-> <<>>, usage |-> [input_tokens |-> 406, output_tokens |-> 73]]

AnthropicJsons ==
    {AnthropicJson(c, r) : c \in SeqsUpTo(ContentBlockJsons, MaxBlocks), r \in {"end_turn", "tool_use"}}

ToolCallJson(id, name, arguments) ==
    [id |-> id, type |-> "function", function |-> [name |-> name, arguments |-> arguments]]

ToolCallsJsons ==
    {<<>>,
     <<ToolCallJson("call_1", "get_weather", "{\"location\":\"San Francisco, CA\"}")>>,
     <<ToolCallJson("call_2", "get_time", "not json"),
       ToolCallJson("call_3", "get_time", "{}")>>}

MessageJsons ==
    {[role |-> r, content |-> c] : r \in {"assistant", "tool"},
                                   c \in {<<>>, <<"This is a regular response.">>}}
    \cup {[role |-> r, content |-> c, tool_calls |-> t] :
            r \in {"assistant", "tool"}, c \in {<<>>, <<"This is a regular response.">>},
            t \in ToolCallsJsons}

ChoiceJsons ==
    {[index |-> 0, message |-> m, finish_reason |-> IF m.role = "tool" THEN "tool_calls" ELSE "stop"] :
        m \in MessageJsons}
    \cup {[message |-> [role |-> "assistant", content |-> <<"no index">>], finish_reason |-> "stop"]}

OpenAIJson(choices) ==
    [id |-> "chatcmpl-123", object |-> "chat.completion", created |-> 1721962302,
     model |-> "gpt-4o-2024-05-13", choices |-> choices,
     usage |-> [prompt_tokens |-> 106, completion_tokens |-> 17, total_tokens |-> 123]]

OpenAIJsons == {OpenAIJson(c) : c \in SeqsUpTo(ChoiceJsons, MaxChoices)}

Bodies == {NotJson, ErrorJson} \cup AnthropicJsons \cup OpenAIJsons

----------------------------------------------------------------------------
(* The vendor clients (src/src/client.rs)                                  *)

\* what the HTTP exchange of one post can be: no response at all, or a status
\* with a body that is read as text or fails to be read
Statuses == {101, 200, 399, 400, 499, 500, 599, 600}

ExchangeBodies ==
    {NotJson,
     ErrorJson,
     AnthropicJson(<<[type |-> "text", text |-> "This is a text response."]>>, "end_turn"),
     OpenAIJson(<<[index |-> 0,
                   message |-> [role |-> "assistant", content |-> <<"This is a regular response.">>],
                   finish_reason |-> "stop"]>>),
     OpenAIJson(<<[message |-> [role |-> "assistant", content |-> <<"no index">>],
                   finish_reason |-> "stop"]>>)}

Exchanges ==
    {[failed |-> TRUE]}
    \cup {[failed |-> FALSE, status |-> s, text |-> t] :
            s \in Statuses, t \in {Err("body")} \cup {Ok(b) : b \in ExchangeBodies}}

\* StatusCode::is_client_error, StatusCode::is_server_error
is_client_error(status) == 400 <= status /\ status <= 499

is_server_error_strict(status) == 500 < status /\ status <= 599

is_server_error(status) == 500 <= status /\ status <= 599

\* response.text().await.unwrap_or("".into())
resp_text(x) == IF is_ok(x.text) THEN x.text.val ELSE NotJson

\* format!("Status: {} - Error: {}", resp_status, resp_text)
status_detail(x) == <<"Status: ", x.status, " - Error: ", resp_text(x)>>

AnthropicClient_send_message_success_only(request_body, x) ==
    IF x.failed THEN Err(RequestError)
    ELSE IF is_client_error(x.status) THEN Err(ClientError(status_detail(x)))
    ELSE IF is_server_error(x.status) THEN Err(ServerError(status_detail(x)))
    ELSE IF x.status < 200 \/ x.status > 299 THEN Err(ResponseParseError)
    ELSE ResponseMessage_deserialize(resp_text(x))

AnthropicClient_send_message(request_body, x) ==
    IF x.failed THEN Err(RequestError)
    ELSE IF is_client_error(x.status) THEN Err(ClientError(status_detail(x)))
    ELSE IF is_server_error(x.status) THEN Err(ServerError(status_detail(x)))
    ELSE ResponseMessage_deserialize(resp_text(x))

OpenAIClient_send_message(request_body, x) ==
    IF x.failed THEN Err(RequestError)
    ELSE IF is_client_error(x.status) THEN Err(ClientError(status_detail(x)))
    ELSE IF is_server_error(x.status) THEN Err(ServerError(status_detail(x)))
    ELSE IF is_ok(OpenAIResponse_deserialize(resp_text(x)))
         THEN Ok(ResponseMessage_OpenAI(OpenAIResponse_deserialize(resp_text(x)).val))
         ELSE Err(ResponseParseError)

\* self.client.send_message(request_body) on the boxed client
send_message(client, request_body, x) ==
    IF client = "Anthropic" THEN AnthropicClient_send_message(request_body, x)
    ELSE OpenAIClient_send_message(request_body, x)

----------------------------------------------------------------------------
(* The caller of the RequestBuilder                                        *)

InitRequest ==
    /\ builder \in {RequestBuilder_new(c) : c \in ClientLlm}
    /\ rendered = <<>>
    /\ user_calls = <<>>
    /\ tool_adds = <<>>
    /\ posts = <<>>
    /\ sent = None

\* a setter consumes the builder and returns the changed one
Set(b) ==
    /\ is_none(sent)
    /\ builder' = b
    /\ rendered' = <<>>
    /\ UNCHANGED <<posts, sent, tool_vars, response_vars, shared_vars, session_vars>>

\* LlmClient::request: a new builder on the same client
Request ==
    /\ builder' = RequestBuilder_new(builder.client)
    /\ rendered' = <<>>
    /\ user_calls' = <<>>
    /\ tool_adds' = <<>>
    /\ posts' = <<>>
    /\ sent' = None
    /\ UNCHANGED <<tool_vars, response_vars, shared_vars, session_vars>>

AddTool ==
    /\ Len(unwrap_or(builder.tools, <<>>)) < MaxTools
    /\ \E t \in Tools :
        /\ Set(add_tool(builder, t))
        /\ tool_adds' = Append(tool_adds, t)
    /\ UNCHANGED user_calls

Model ==
    /\ \E m \in Models : Set(model(builder, m))
    /\ UNCHANGED <<user_calls, tool_adds>>

UserMessage ==
    /\ Len(user_calls) < MaxMessages
    /\ \E m \in Texts :
        /\ Set(user_message(builder, m))
        /\ user_calls' = Append(user_calls, m)
    /\ UNCHANGED tool_adds

SetMaxTokens ==
    /\ \E n \in MaxTokens : Set(max_tokens(builder, n))
    /\ UNCHANGED <<user_calls, tool_adds>>

Temperature ==
    /\ \E t \in Temperatures : Set(temperature(builder, t))
    /\ UNCHANGED <<user_calls, tool_adds>>

SystemPrompt ==
    /\ \E p \in SystemPrompts : Set(system_prompt(builder, p))
    /\ UNCHANGED <<user_calls, tool_adds>>

\* the tool sequences equal to ts up to the iteration order of each tool's HashMap
Rehashed(ts) ==
    LET one(t) == {[t EXCEPT !.parameters.order = o] : o \in Orders(keys(t.parameters))}
    IN  {ts2 \in [DOMAIN ts -> UNION {one(ts[i]) : i \in DOMAIN ts}] :
            \A i \in DOMAIN ts : ts2[i] \in one(ts[i])}

\* render_request translating a rebuilt copy of each tool, whose HashMap may
\* iterate in another order
RenderRequest_rehash ==
    /\ is_none(sent)
    /\ Len(rendered) < MaxRenders
    /\ \E ts \in (IF is_some(builder.tools) THEN Rehashed(unwrap(builder.tools)) ELSE {<<>>}) :
         rendered' = Append(rendered,
            render_request(IF is_some(builder.tools)
                           THEN [builder EXCEPT !.tools = Some(ts)] ELSE builder))
    /\ UNCHANGED <<builder, user_calls, tool_adds, posts, sent, tool_vars, response_vars, shared_vars, session_vars>>

\* render_request pushing the system message on the builder's own messages
RenderRequest_push_system ==
    /\ is_none(sent)
    /\ Len(rendered) < MaxRenders
    /\ rendered' = Append(rendered, render_request(builder))
    /\ builder' = IF /\ is_ok(render_request(builder))
                     /\ builder.client = "OpenAI"
                     /\ render_system_prompt(builder) # ""
                  THEN [builder EXCEPT !.messages =
                          Some(Append(unwrap(@), Message("system", render_system_prompt(builder))))]
                  ELSE builder
    /\ UNCHANGED <<user_calls, tool_adds, posts, sent, tool_vars, response_vars, shared_vars, session_vars>>

\* render_request(&self)
RenderRequest ==
    /\ is_none(sent)
    /\ Len(rendered) < MaxRenders
    /\ rendered' = Append(rendered, render_request(builder))
    /\ UNCHANGED <<builder, user_calls, tool_adds, posts, sent, tool_vars, response_vars, shared_vars, session_vars>>

\* one call of send_message on the client: what it was given, what happened
\* on the wire, what it returned
Post(request_body, x) ==
    [request_body |-> request_body, exchange |-> x,
     result |-> send_message(builder.client, request_body, x)]

Send_retry ==
    /\ is_none(sent)
    /\ LET request_body == render_request(builder)
       IN  IF is_err(request_body)
           THEN /\ sent' = Some(Err(request_body.err))
                /\ posts' = posts
           ELSE \E x, y \in Exchanges :
                   IF is_err(Post(request_body.val, x).result)
                   THEN /\ posts' = posts \o <<Post(request_body.val, x), Post(request_body.val, y)>>
                        /\ sent' = Some(Post(request_body.val, y).result)
                   ELSE /\ posts' = Append(posts, Post(request_body.val, x))
                        /\ sent' = Some(Post(request_body.val, x).result)
    /\ UNCHANGED <<builder, rendered, user_calls, tool_adds, tool_vars, response_vars, shared_vars, session_vars>>

\* send(self)
Send ==
    /\ is_none(sent)
    /\ LET request_body == render_request(builder)
       IN  IF is_err(request_body)
           THEN /\ sent' = Some(Err(request_body.err))
                /\ posts' = posts
           ELSE \E x \in Exchanges :
                   /\ posts' = Append(posts, Post(request_body.val, x))
                   /\ sent' = Some(Post(request_body.val, x).result)
    /\ UNCHANGED <<builder, rendered, user_calls, tool_adds, tool_vars, response_vars, shared_vars, session_vars>>

----------------------------------------------------------------------------
(* Threads that build requests on one shared client                        *)
(* (src/tests/integration_tests.rs, test_llm_client_sync)                  *)

Threads == {"t1", "t2"}

\* AnthropicClient / OpenAIClient: the vendor and the credential
LlmClient_new(client_type, api_key) == [client_type |-> client_type, api_key |-> api_key]

\* the setter calls a thread chooses from
SetterCalls ==
    {[fn |-> "user_message", arg |-> m] : m \in Texts}
    \cup {[fn |-> "model", arg |-> m] : m \in Models}
    \cup {[fn |-> "system_prompt", arg |-> "You are a haiku assistant."],
          [fn |-> "temperature", arg |-> INFINITY]}

\* the builder a setter call returns
call_setter(self, call) ==
    CASE call.fn = "user_message" -> user_message(self, call.arg)
      [] call.fn = "model" -> model(self, call.arg)
      [] call.fn = "system_prompt" -> system_prompt(self, call.arg)
      [] call.fn = "temperature" -> temperature(self, call.arg)

\* the builder holds `client: &dyn LlmClientTrait` and asks it for
\* client_type() when it renders
deref(self) == [self EXCEPT !.client = llm_client.client_type]

InitShared ==
    /\ llm_client = LlmClient_new(builder.client, "mock_api_key")
    /\ builders = [t \in Threads |-> RequestBuilder_new(builder.client)]
    /\ setter_calls = [t \in Threads |-> <<>>]
    /\ renders = [t \in Threads |-> None]

SharedSet_aliased(t, b) ==
    /\ builders' = [u \in Threads |-> b]
    /\ renders' = [renders EXCEPT ![t] = None]
    /\ UNCHANGED <<llm_client, request_vars, tool_vars, response_vars, session_vars>>

\* a thread's builder is replaced by the one a call returns
SharedSet(t, b) ==
    /\ builders' = [builders EXCEPT ![t] = b]
    /\ renders' = [renders EXCEPT ![t] = None]
    /\ UNCHANGED <<llm_client, request_vars, tool_vars, response_vars, session_vars>>

\* RequestBuilder::new(&client) by one thread
SharedRequest ==
    \E t \in Threads :
        /\ setter_calls[t] # <<>>
        /\ SharedSet(t, RequestBuilder_new(llm_client.client_type))
        /\ setter_calls' = [setter_calls EXCEPT ![t] = <<>>]

\* one setter call by one thread on its own builder
SharedSetter ==
    \E t \in Threads, call \in SetterCalls :
        /\ Len(setter_calls[t]) < MaxSetterCalls
        /\ SharedSet(t, call_setter(builders[t], call))
        /\ setter_calls' = [setter_calls EXCEPT ![t] = Append(@, call)]

\* render_request(&self) by one thread on its own builder
SharedRender ==
    \E t \in Threads :
        /\ renders[t] = None
        /\ renders' = [renders EXCEPT ![t] = Some(render_request(deref(builders[t])))]
        /\ UNCHANGED <<llm_client, builders, setter_calls, request_vars, tool_vars,
                       response_vars, session_vars>>

----------------------------------------------------------------------------
(* The Chat Session (spec.md 4.4; its code is not among the sources)       *)

\* a session in Idle with an empty transcript and both tallies at zero
ChatSession_new(client_type, temp) ==
    [client |-> client_type,
     model |-> IF client_type = "Anthropic" THEN DEFAULT_ANTHROPIC_MODEL ELSE DEFAULT_OPENAI_MODEL,
     max_tokens |-> DEFAULT_MAX_TOKENS,
     temperature |-> temp,
     system_prompt |-> None,
     transcript |-> <<>>,
     input_tokens_tally |-> 0,
     output_tokens_tally |-> 0,
     state |-> "Idle",
     pending |-> None]

\* send/add: the turn starts with the user message of the caller
ChatSession_send(self, text) ==
    [self EXCEPT !.state = "AwaitingReply", !.pending = Some(Message("user", text))]

\* the request of the turn: the configuration and the full transcript, the
\* user message of the turn last
session_request(self) ==
    [RequestBuilder_new(self.client) EXCEPT
        !.model = Some(self.model),
        !.max_tokens = Some(self.max_tokens),
        !.temperature = Some(self.temperature),
        !.system_prompt = self.system_prompt,
        !.messages = Some(self.transcript \o self.pending)]

ChatSession_reply_keep_user(self, result) ==
    IF is_err(result)
    THEN [self EXCEPT !.state = "Idle", !.pending = None,
                      !.transcript = @ \o self.pending]
    ELSE [self EXCEPT
            !.transcript = @ \o self.pending
                             \o <<Message(role(result.val), first_message(result.val))>>,
            !.input_tokens_tally = @ + usage(result.val).input_tokens,
            !.output_tokens_tally = @ + usage(result.val).output_tokens,
            !.state = "Idle", !.pending = None]

ChatSession_reply_last_usage(self, result) ==
    IF is_err(result)
    THEN [self EXCEPT !.state = "Idle", !.pending = None]
    ELSE [self EXCEPT
            !.transcript = @ \o self.pending
                             \o <<Message(role(result.val), first_message(result.val))>>,
            !.input_tokens_tally = usage(result.val).input_tokens,
            !.output_tokens_tally = usage(result.val).output_tokens,
            !.state = "Idle", !.pending = None]

\* the end of the turn: a failure leaves transcript and tallies as they were;
\* a reply appends the user message and the reply and adds the turn's usage
ChatSession_reply(self, result) ==
    IF is_err(result)
    THEN [self EXCEPT !.state = "Idle", !.pending = None]
    ELSE [self EXCEPT
            !.transcript = @ \o self.pending
                             \o <<Message(role(result.val), first_message(result.val))>>,
            !.input_tokens_tally = @ + usage(result.val).input_tokens,
            !.output_tokens_tally = @ + usage(result.val).output_tokens,
            !.state = "Idle", !.pending = None]

\* what the exchange of a turn can be
SessionExchanges ==
    {[failed |-> TRUE]}
    \cup {[failed |-> FALSE, status |-> 200, text |-> Ok(b)] : b \in ExchangeBodies}
    \cup {[failed |-> FALSE, status |-> 500, text |-> Ok(NotJson)]}

InitSession ==
    /\ session = ChatSession_new(builder.client, DEFAULT_TEMP)
    /\ turns = <<>>

\* the caller starts a turn
SessionSend ==
    /\ session.state = "Idle"
    /\ Len(turns) < MaxTurns
    /\ \E text \in Texts :
          /\ session' = ChatSession_send(session, text)
          /\ turns' = Append(turns, [before |-> session, text |-> text, result |-> None])
    /\ UNCHANGED <<request_vars, tool_vars, response_vars, shared_vars>>

\* the turn ends: the request is rendered and, if that succeeds, sent
SessionReply ==
    /\ session.state = "AwaitingReply"
    /\ \E x \in SessionExchanges :
          LET request_body == render_request(session_request(session))
              result == IF is_err(request_body) THEN Err(request_body.err)
                        ELSE send_message(session.client, request_body.val, x)
          IN  /\ session' = ChatSession_reply(session, result)
              /\ turns' = [turns EXCEPT ![Len(turns)].result = Some(result)]
    /\ UNCHANGED <<request_vars, tool_vars, response_vars, shared_vars>>

----------------------------------------------------------------------------
(* The caller of the ToolBuilder                                           *)

InitTool ==
    /\ tool_builder = Some(ToolBuilder_new)
    /\ tool = None
    /\ anthropic_format = None
    /\ openai_format = None
    /\ parameter_calls = <<>>

\* Tool::builder(), once the previous builder is consumed and its tool dropped
ToolBuilderNew ==
    /\ is_none(tool_builder)
    /\ tool_builder' = Some(ToolBuilder_new)
    /\ tool' = None
    /\ anthropic_format' = None
    /\ openai_format' = None
    /\ parameter_calls' = <<>>
    /\ UNCHANGED <<request_vars, response_vars, shared_vars, session_vars>>

ToolSet(b) ==
    /\ is_some(tool_builder)
    /\ tool_builder' = Some(b)
    /\ UNCHANGED <<tool, anthropic_format, openai_format, parameter_calls, request_vars, response_vars, shared_vars, session_vars>>

ToolName == \E n \in ToolNames : ToolSet(ToolBuilder_name(unwrap(tool_builder), n))

ToolDescription == \E d \in ToolDescriptions : ToolSet(ToolBuilder_description(unwrap(tool_builder), d))

\* a call that registers a parameter: the builder it returns, and its arguments
ToolAdd(b, call) ==
    /\ is_some(tool_builder)
    /\ Len(parameter_calls) < MaxParameterCalls
    /\ tool_builder' = Some(b)
    /\ parameter_calls' = Append(parameter_calls, call)
    /\ UNCHANGED <<tool, anthropic_format, openai_format, request_vars, response_vars, shared_vars, session_vars>>

AddParameter ==
    /\ is_some(tool_builder)
    /\ \E n \in ParameterNames, ty \in ParameterTypes, d \in ParameterDescriptions, r \in BOOLEAN :
         \E ord \in Orders(keys(unwrap(tool_builder).parameters) \cup {n}) :
            ToolAdd(add_parameter(unwrap(tool_builder), n, ty, d, r, ord),
                    [fn |-> "add_parameter", name |-> n, parameter_type |-> ty,
                     description |-> d, required |-> r])

AddEnumParameter ==
    /\ is_some(tool_builder)
    /\ \E n \in ParameterNames, d \in ParameterDescriptions, r \in BOOLEAN, e \in EnumValues :
         \E ord \in Orders(keys(unwrap(tool_builder).parameters) \cup {n}) :
            ToolAdd(add_enum_parameter(unwrap(tool_builder), n, d, r, e, ord),
                    [fn |-> "add_enum_parameter", name |-> n, description |-> d,
                     required |-> r, enum_values |-> e])

\* build(self)
Build ==
    /\ is_some(tool_builder)
    /\ tool' = Some(build(unwrap(tool_builder)))
    /\ tool_builder' = None
    /\ UNCHANGED <<anthropic_format, openai_format, parameter_calls, request_vars, response_vars, shared_vars, session_vars>>

ToAnthropicFormat ==
    /\ is_some(tool) /\ is_ok(unwrap(tool))
    /\ anthropic_format' = Some(to_anthropic_format(unwrap(tool).val))
    /\ UNCHANGED <<tool_builder, tool, openai_format, parameter_calls, request_vars, response_vars, shared_vars, session_vars>>

ToOpenAIFormat ==
    /\ is_some(tool) /\ is_ok(unwrap(tool))
    /\ openai_format' = Some(to_openai_format(unwrap(tool).val))
    /\ UNCHANGED <<tool_builder, tool, anthropic_format, parameter_calls, request_vars, response_vars, shared_vars, session_vars>>

----------------------------------------------------------------------------
(* The caller of the response model                                        *)

\* before any body is received
NoResponse ==
    /\ body = NotJson
    /\ response = None
    /\ observed = None

\* a body has been received
InitResponse ==
    /\ body \in Bodies
    /\ response = None
    /\ observed = None

\* serde_json::from_str::<ResponseMessage>(&resp_text), as AnthropicClient does
Deserialize ==
    /\ is_none(response)
    /\ response' = Some(ResponseMessage_deserialize(body))
    /\ UNCHANGED <<body, observed, request_vars, tool_vars, shared_vars, session_vars>>

\* serde_json::from_str::<OpenAIResponse>(&resp_text), wrapped, as OpenAIClient does
DeserializeOpenAI ==
    /\ is_none(response)
    /\ response' = Some(IF is_ok(OpenAIResponse_deserialize(body))
                        THEN Ok(ResponseMessage_OpenAI(OpenAIResponse_deserialize(body).val))
                        ELSE Err(ResponseParseError))
    /\ UNCHANGED <<body, observed, request_vars, tool_vars, shared_vars, session_vars>>

\* an accessor call on the response
Observe(op, out) ==
    /\ is_some(response) /\ is_ok(unwrap(response))
    /\ observed' = Some([op |-> op, out |-> out])
    /\ UNCHANGED <<body, response, request_vars, tool_vars, shared_vars, session_vars>>

FirstMessage == Observe("first_message", first_message(unwrap(response).val))

ToolsCall == Observe("tools", tools(unwrap(response).val))

Role == Observe("role", role(unwrap(response).val))

ResponseModel == Observe("model", ResponseMessage_model(unwrap(response).val))

StopReason == Observe("stop_reason", stop_reason(unwrap(response).val))

Usage == Observe("usage", usage(unwrap(response).val))

----------------------------------------------------------------------------
(* Specifications *)

Init == InitRequest /\ InitTool /\ NoResponse /\ InitShared /\ InitSession

InitReceived == InitRequest /\ InitTool /\ InitResponse /\ InitShared /\ InitSession

\* a session on either vendor, with a temperature that renders or one that does not
InitChat ==
    /\ InitRequest /\ InitTool /\ NoResponse /\ InitShared
    /\ session \in {ChatSession_new(builder.client, t) : t \in {DEFAULT_TEMP, NAN}}
    /\ turns = <<>>

NextRequest ==
    \/ Request
    \/ AddTool
    \/ Model
    \/ UserMessage
    \/ SetMaxTokens
    \/ Temperature
    \/ SystemPrompt
    \/ RenderRequest

NextTool ==
    \/ ToolBuilderNew
    \/ ToolName
    \/ ToolDescription
    \/ AddParameter
    \/ AddEnumParameter
    \/ Build
    \/ ToAnthropicFormat
    \/ ToOpenAIFormat

\* the request builder and its renderer
Spec == Init /\ [][NextRequest]_vars

NextSend ==
    \/ Request
    \/ Model
    \/ UserMessage
    \/ SetMaxTokens
    \/ Temperature
    \/ SystemPrompt
    \/ Send

\* the request builder and send
SpecSend == Init /\ [][NextSend]_vars

NextShared ==
    \/ SharedRequest
    \/ SharedSetter
    \/ SharedRender

\* two threads building and rendering requests on one client
SpecShared == Init /\ [][NextShared]_vars

NextSession ==
    \/ SessionSend
    \/ SessionReply

\* the turns of one chat session
SpecSession == InitChat /\ [][NextSession]_vars

NextResponse ==
    \/ Deserialize
    \/ DeserializeOpenAI
    \/ FirstMessage
    \/ ToolsCall
    \/ Role
    \/ ResponseModel
    \/ StopReason
    \/ Usage

\* the tool builder and the two translators
SpecTool == Init /\ [][NextTool]_vars

\* the response model: deserialization and the accessors
SpecResponse == InitReceived /\ [][NextResponse]_vars

----------------------------------------------------------------------------
(* Properties of the request builder                                       *)

\* the outcomes and the documents the caller holds
Outcomes == {rendered[i] : i \in DOMAIN rendered}
Documents == {r.val : r \in {o \in Outcomes : is_ok(o)}}

\* the messages the user_message calls asked for
UserMessages == [i \in 1..Len(user_calls) |-> Message("user", user_calls[i])]

NonFinite(t) == t \in {NAN, INFINITY, NEG_INFINITY}

\* C1: when user_message was never called, render_request returns the
\* MissingMessages error and no document, whatever the vendor and the other
\* settings are.
C1_MissingMessages ==
    user_calls = <<>> => \A r \in Outcomes : r = Err(MissingMessages)

C1_Witness ==
    /\ user_calls = <<>>
    /\ rendered # <<>>
    /\ builder.client = "OpenAI"
    /\ builder.temperature = Some(NAN)
    /\ is_some(builder.tools)
    /\ is_some(builder.model) /\ is_some(builder.max_tokens) /\ is_some(builder.system_prompt)

\* C2: with at least one user message and a temperature set to NaN, +infinity
\* or -infinity, render_request returns InvalidUsage for either vendor.
C2_InvalidTemperature ==
    (/\ user_calls # <<>>
     /\ is_some(builder.temperature)
     /\ NonFinite(unwrap(builder.temperature)))
    => \A r \in Outcomes : is_err(r) /\ r.err.kind = "InvalidUsage"

C2_Witness ==
    /\ user_calls # <<>>
    /\ rendered # <<>>
    /\ builder.client = "OpenAI"
    /\ builder.temperature = Some(NEG_INFINITY)
    /\ is_some(builder.tools)

\* C3: vendor B: a non-empty system prompt is the last element of the
\* rendered messages, with role "system", after every user message; an unset
\* or empty system prompt leaves exactly the user messages.
C3_OpenAISystemLast ==
    builder.client = "OpenAI" =>
        \A d \in Documents :
            IF is_some(builder.system_prompt) /\ unwrap(builder.system_prompt) # ""
            THEN /\ Len(d.messages) = Len(user_calls) + 1
                 /\ d.messages[Len(d.messages)] = Message("system", unwrap(builder.system_prompt))
                 /\ SubSeq(d.messages, 1, Len(user_calls)) = UserMessages
            ELSE d.messages = UserMessages

C3_Witness ==
    /\ builder.client = "OpenAI"
    /\ Documents # {}
    /\ Len(user_calls) = 2
    /\ is_some(builder.system_prompt) /\ unwrap(builder.system_prompt) # ""

\* C4: vendor A: the system prompt is the top-level field `system` ("" when
\* never set), no message has role "system", and the rendered messages are
\* exactly the user messages.
C4_AnthropicSystemField ==
    builder.client = "Anthropic" =>
        \A d \in Documents :
            /\ d.system = (IF is_some(builder.system_prompt) THEN unwrap(builder.system_prompt) ELSE "")
            /\ \A i \in DOMAIN d.messages : d.messages[i].role # "system"
            /\ d.messages = UserMessages

C4_Witness ==
    /\ builder.client = "Anthropic"
    /\ Documents # {}
    /\ Len(user_calls) = 2
    /\ is_some(builder.system_prompt) /\ unwrap(builder.system_prompt) # ""

C7_BuilderUnchanged ==
    [][Len(rendered') > Len(rendered) => builder' = builder]_vars

C7_Witness ==
    /\ builder.client = "OpenAI"
    /\ Len(rendered) = 2
    /\ \A d \in Documents : Len(d.messages) = Len(unwrap(builder.messages)) + 1
    /\ Documents # {}

\* C8: user_message appends: after n calls, interleaved with the other
\* setters, the rendered messages begin with exactly n elements of role
\* "user" whose contents are the arguments in call order.
C8_UserMessagesInOrder ==
    \A d \in Documents :
        /\ Len(d.messages) >= Len(user_calls)
        /\ SubSeq(d.messages, 1, Len(user_calls)) = UserMessages
        /\ \A i \in DOMAIN d.messages : i > Len(user_calls) => d.messages[i].role # "user"

C8_Witness ==
    /\ Documents # {}
    /\ Len(user_calls) = 2
    /\ user_calls[1] # user_calls[2]
    /\ is_some(builder.model) /\ is_some(builder.system_prompt) /\ is_some(builder.tools)

\* C9: unset fields render as the defaults (the vendor's model, max_tokens 100,
\* temperature 0.0 and, for vendor A, system ""), and a value set for model,
\* max_tokens or system prompt replaces the default.
C9_Defaults ==
    \A d \in Documents :
        /\ d.model = (IF is_some(builder.model) THEN unwrap(builder.model)
                      ELSE IF builder.client = "Anthropic" THEN "claude-3-haiku-20240307"
                      ELSE "gpt-4o")
        /\ d.max_tokens = (IF is_some(builder.max_tokens) THEN unwrap(builder.max_tokens) ELSE 100)
        /\ is_none(builder.temperature) => d.temperature = F64(0, 0, 0, 0)
        /\ builder.client = "Anthropic" =>
             d.system = (IF is_some(builder.system_prompt) THEN unwrap(builder.system_prompt) ELSE "")

C9_Witness ==
    /\ Documents # {}
    /\ builder = user_message(RequestBuilder_new("Anthropic"), "Hello!")

\* C10: a finite temperature round-trips exactly: the rendered temperature is
\* the value passed to temperature(), for both vendors.
C10_TemperatureRoundTrip ==
    (/\ user_calls # <<>>
     /\ is_some(builder.temperature)
     /\ ~NonFinite(unwrap(builder.temperature)))
    => \A r \in Outcomes : is_ok(r) /\ r.val.temperature = unwrap(builder.temperature)

C10_Witness ==
    /\ Documents # {}
    /\ builder.client = "OpenAI"
    /\ builder.temperature = Some(F64(0, 1019, 65444564, 11596412))

----------------------------------------------------------------------------
(* Properties of the tool translators                                      *)

\* the names of the parameters registered with required = true
RequiredNames(t) == {n \in keys(t.parameters) : t.parameters.map[n].required}

Range(seq) == {seq[i] : i \in DOMAIN seq}

\* C5: for both vendor formats the names in the emitted `required` array are,
\* as a set, the names of the tool's parameters registered with required = true.
C5_RequiredSet ==
    (is_some(tool) /\ is_ok(unwrap(tool))) =>
        /\ is_some(anthropic_format) =>
             Range(unwrap(anthropic_format).input_schema.required) = RequiredNames(unwrap(tool).val)
        /\ is_some(openai_format) =>
             Range(unwrap(openai_format).function.parameters.required) = RequiredNames(unwrap(tool).val)

----------------------------------------------------------------------------
(* Properties of the tool builder                                          *)

\* C19: build() fails whenever name or description was never set, whatever
\* parameters were added, reporting the missing name when both are missing;
\* otherwise it returns a Tool holding exactly the name, the description and
\* the parameter map accumulated by the builder.
C19_Build ==
    [][(is_some(tool_builder) /\ is_none(tool_builder')) =>
        LET self == unwrap(tool_builder)
        IN  /\ is_some(tool')
            /\ is_none(self.name) => unwrap(tool') = Err("Tool name is required")
            /\ (is_some(self.name) /\ is_none(self.description)) =>
                   unwrap(tool') = Err("Tool description is required")
            /\ (is_some(self.name) /\ is_some(self.description)) =>
                   /\ is_ok(unwrap(tool'))
                   /\ unwrap(tool').val.name = unwrap(self.name)
                   /\ unwrap(tool').val.description = unwrap(self.description)
                   /\ unwrap(tool').val.parameters = self.parameters
                   /\ DOMAIN unwrap(tool').val = {"name", "description", "parameters"}]_vars

\* build() has failed on a builder that had parameters but no name
C19_Witness ==
    /\ parameter_calls # <<>>
    /\ tool = Some(Err("Tool name is required"))

\* the parameters of the builder, or of the tool built from it
Parameters ==
    IF is_some(tool_builder) THEN Some(unwrap(tool_builder).parameters)
    ELSE IF is_some(tool) /\ is_ok(unwrap(tool)) THEN Some(unwrap(tool).val.parameters)
    ELSE None

\* the last call that registered a parameter under the name n
LastCall(n) ==
    parameter_calls[CHOOSE i \in DOMAIN parameter_calls :
                      /\ parameter_calls[i].name = n
                      /\ \A j \in DOMAIN parameter_calls : j > i => parameter_calls[j].name # n]

\* the parameter a call registers
Registered(call) ==
    IF call.fn = "add_parameter"
    THEN ToolParameter(call.parameter_type, call.description, call.required, None)
    ELSE ToolParameter("string", call.description, call.required, Some(call.enum_values))

\* C20: after any sequence of add_parameter and add_enum_parameter calls the
\* tool holds one parameter per distinct name, and for each name the one
\* registered by the last call with that name, so a later add_parameter
\* removes the enum values of an earlier add_enum_parameter and vice versa.
C20_MapSemantics ==
    is_some(Parameters) =>
        LET parameters == unwrap(Parameters)
        IN  /\ keys(parameters) = {parameter_calls[i].name : i \in DOMAIN parameter_calls}
            /\ parameters.order \in Orders(keys(parameters))
            /\ \A n \in keys(parameters) : parameters.map[n] = Registered(LastCall(n))

\* a built tool whose parameter was an enum first and a plain number last
C20_Witness ==
    /\ is_some(tool) /\ is_ok(unwrap(tool))
    /\ \E i, j \in DOMAIN parameter_calls :
          /\ i < j
          /\ parameter_calls[i].name = parameter_calls[j].name
          /\ parameter_calls[i].fn = "add_enum_parameter"
          /\ parameter_calls[j].fn = "add_parameter"
          /\ parameter_calls[j].parameter_type = "number"
          /\ LastCall(parameter_calls[j].name) = parameter_calls[j]
          /\ is_none(unwrap(tool).val.parameters.map[parameter_calls[j].name].enum_values)

----------------------------------------------------------------------------
(* Properties of send and of the vendor clients                            *)

\* C11: send() renders before any I/O and makes exactly one exchange per call:
\* if render_request() fails, send_message is never invoked and that error is
\* returned; if it succeeds, send_message is invoked exactly once with the
\* rendered document and its result, success or error, is returned unchanged.
C11_SendOnce ==
    /\ is_none(sent) => posts = <<>>
    /\ is_some(sent) =>
         LET request_body == render_request(builder)
         IN  IF is_err(request_body)
             THEN /\ posts = <<>>
                  /\ unwrap(sent) = Err(request_body.err)
                  /\ request_body.err.kind \in {"MissingMessages", "InvalidUsage"}
             ELSE /\ Len(posts) = 1
                  /\ posts[1].request_body = request_body.val
                  /\ unwrap(sent) = posts[1].result

\* send() has returned the server error of its only exchange
C11_Witness ==
    /\ is_some(sent) /\ is_err(unwrap(sent))
    /\ unwrap(sent).err.kind = "ServerError"
    /\ Len(posts) = 1
    /\ posts[1].request_body.messages # <<>>

\* the body has the shape of one vendor's response
AnthropicShaped(b) == is_ok(AnthropicResponse_deserialize(b))
OpenAIShaped(b) == is_ok(OpenAIResponse_deserialize(b))

\* the text of an exchange as the client reads it
TextOf(x) == IF x.text.tag = "Ok" THEN x.text.val ELSE NotJson

\* C12: for both vendor clients, a failure before any status yields
\* RequestError; a 4xx status yields ClientError carrying the status and the
\* body text; a 5xx status yields ServerError carrying them; any other status
\* with a body of no known vendor shape yields ResponseParseError; a response
\* value is returned only in the remaining case.
C12_ErrorBoundary ==
    \A i \in DOMAIN posts :
        LET x == posts[i].exchange
            r == posts[i].result
        IN  /\ x.failed => r = Err(RequestError)
            /\ (~x.failed /\ x.status \in 400..499) =>
                  /\ is_err(r) /\ r.err.kind = "ClientError"
                  /\ r.err.msg[2] = x.status /\ r.err.msg[4] = TextOf(x)
            /\ (~x.failed /\ x.status \in 500..599) =>
                  /\ is_err(r) /\ r.err.kind = "ServerError"
                  /\ r.err.msg[2] = x.status /\ r.err.msg[4] = TextOf(x)
            /\ (~x.failed /\ x.status \notin 400..599
                  /\ ~AnthropicShaped(TextOf(x)) /\ ~OpenAIShaped(TextOf(x))) =>
                  r = Err(ResponseParseError)
            /\ is_ok(r) =>
                  /\ ~x.failed /\ x.status \notin 400..599
                  /\ AnthropicShaped(TextOf(x)) \/ OpenAIShaped(TextOf(x))

\* the OpenAI client has turned a status of 500 into a ServerError
C12_Witness ==
    /\ builder.client = "OpenAI"
    /\ Len(posts) = 1
    /\ ~posts[1].exchange.failed /\ posts[1].exchange.status = 500
    /\ is_err(posts[1].result) /\ posts[1].result.err.kind = "ServerError"

\* C13: for both vendor clients, a body of the Anthropic shape yields the
\* Anthropic variant and a body of the OpenAI shape yields the OpenAI variant,
\* whichever vendor the request was sent to.
C13_VariantByShape ==
    \A i \in DOMAIN posts :
        LET x == posts[i].exchange
            r == posts[i].result
        IN  (~x.failed /\ x.status \notin 400..599) =>
              /\ AnthropicShaped(TextOf(x)) => (is_ok(r) /\ r.val.variant = "Anthropic")
              /\ (OpenAIShaped(TextOf(x)) /\ ~AnthropicShaped(TextOf(x))) =>
                    (is_ok(r) /\ r.val.variant = "OpenAI")

----------------------------------------------------------------------------
(* Properties of the response accessors                                    *)

\* the deserialized response and the accessor last called on it
Received == unwrap(response).val
Observed(op) == is_some(observed) /\ unwrap(observed).op = op
Out == unwrap(observed).out

\* the text blocks of an Anthropic response, in order
TextBlocks == SelectSeq(Received.response.content, LAMBDA b : b.variant = "Text")

\* C14: first_message() on an Anthropic response returns the text of the
\* first text block of `content`, skipping the tool-use blocks before it, and
\* the empty string only when `content` has no text block.
C14_FirstTextBlock ==
    (Observed("first_message") /\ Received.variant = "Anthropic") =>
        IF TextBlocks = <<>> THEN Out = "" ELSE Out = TextBlocks[1].text

\* C15: first_message() on an OpenAI response returns the first choice's
\* message content when present; when it is absent and the first choice has a
\* tool call, the placeholder "Function call: <name>" of its first tool call;
\* the empty string when there are no choices or neither content nor tool
\* call. Later choices have no influence.
C15_FirstChoice ==
    (Observed("first_message") /\ Received.variant = "OpenAI") =>
        IF Received.response.choices = <<>> THEN Out = ""
        ELSE LET message == Received.response.choices[1].message
             IN  IF message.content # None THEN Out = message.content[1]
                 ELSE IF message.tool_calls = None \/ message.tool_calls = Some(<<>>) THEN Out = ""
                 ELSE LET name == message.tool_calls[1][1].function.name
                      IN  \/ name = "get_weather" /\ Out = "Function call: get_weather"
                          \/ name = "get_time" /\ Out = "Function call: get_time"

\* the first of two choices has no content and a tool call, the second has content
C15_Witness ==
    /\ Observed("first_message") /\ Received.variant = "OpenAI"
    /\ Len(Received.response.choices) = 2
    /\ Received.response.choices[1].message.content = None
    /\ Received.response.choices[2].message.content # None
    /\ Out = "Function call: get_time"

\* the tool invocations of the response, in the order they occur
RECURSIVE Flatten(_)
Flatten(seqs) == IF seqs = <<>> THEN <<>> ELSE Head(seqs) \o Flatten(Tail(seqs))

Invocations ==
    IF Received.variant = "Anthropic"
    THEN SelectSeq(Received.response.content, LAMBDA b : b.variant = "ToolUse")
    ELSE Flatten([i \in DOMAIN Received.response.choices |->
                    IF Received.response.choices[i].message.tool_calls = None THEN <<>>
                    ELSE Received.response.choices[i].message.tool_calls[1]])

\* C16: tools() returns none exactly when the response has no tool invocation;
\* otherwise a non-empty sequence with one ToolResponse (id, name, input) per
\* tool_use block, or per tool_calls entry of every choice, in response order.
C16_Tools ==
    Observed("tools") =>
        /\ Out = None <=> Invocations = <<>>
        /\ Out # None =>
             /\ Len(Out[1]) = Len(Invocations)
             /\ \A i \in DOMAIN Invocations :
                   /\ DOMAIN Out[1][i] = {"id", "name", "input"}
                   /\ Out[1][i].id = Invocations[i].id
                   /\ IF Received.variant = "Anthropic"
                      THEN /\ Out[1][i].name = Invocations[i].name
                           /\ Out[1][i].input = Invocations[i].input
                      ELSE /\ Out[1][i].name = Invocations[i].function.name
                           /\ is_ok(Value_from_str(Invocations[i].function.arguments)) =>
                                 Out[1][i].input = Value_from_str(Invocations[i].function.arguments).val

\* the three tool calls of two choices, in order
C16_Witness ==
    /\ Observed("tools") /\ Received.variant = "OpenAI"
    /\ Len(Received.response.choices) = 2
    /\ Out # None
    /\ [i \in DOMAIN Out[1] |-> Out[1][i].id] = <<"call_1", "call_2", "call_3">>

\* C17: usage() gives input_tokens and output_tokens of an Anthropic response
\* as they are, and prompt_tokens and completion_tokens of an OpenAI response
\* under those names; total_tokens is not used.
C17_Usage ==
    Observed("usage") =>
        /\ DOMAIN Out = {"input_tokens", "output_tokens"}
        /\ Received.variant = "Anthropic" =>
              /\ Out.input_tokens = body.usage.input_tokens
              /\ Out.output_tokens = body.usage.output_tokens
        /\ Received.variant = "OpenAI" =>
              /\ Out.input_tokens = body.usage.prompt_tokens
              /\ Out.output_tokens = body.usage.completion_tokens

\* the usage of an OpenAI response whose three counters differ
C17_Witness ==
    /\ Observed("usage") /\ Received.variant = "OpenAI"
    /\ body.usage.total_tokens # body.usage.completion_tokens
    /\ body.usage.prompt_tokens # body.usage.completion_tokens
    /\ Out.output_tokens = body.usage.completion_tokens

\* C18: role() and stop_reason() return the native `role` and `stop_reason`
\* of an Anthropic response; for an OpenAI response the first choice's
\* message role and finish_reason, and the empty string when there is no
\* choice; later choices are never consulted.
C18_RoleStopReason ==
    /\ Observed("role") =>
          Out = IF Received.variant = "Anthropic" THEN body.role
                ELSE IF body.choices = <<>> THEN ""
                ELSE body.choices[1].message.role
    /\ Observed("stop_reason") =>
          Out = IF Received.variant = "Anthropic" THEN body.stop_reason
                ELSE IF body.choices = <<>> THEN ""
                ELSE body.choices[1].finish_reason

\* the stop reason of an OpenAI response whose two choices finish differently
C18_Witness ==
    /\ Observed("stop_reason") /\ Received.variant = "OpenAI"
    /\ Len(body.choices) = 2
    /\ body.choices[1].finish_reason # body.choices[2].finish_reason
    /\ Out = body.choices[1].finish_reason

----------------------------------------------------------------------------
(* Properties of the emitted tool schemas                                  *)

\* the `properties` objects of the formats emitted so far for the built tool
EmittedProperties ==
    (IF is_some(anthropic_format)
     THEN {unwrap(anthropic_format).input_schema.properties} ELSE {})
    \cup (IF is_some(openai_format)
          THEN {unwrap(openai_format).function.parameters.properties} ELSE {})

\* C21: for both vendor formats the keys of `properties` are the tool's
\* registered parameter names; each property carries the parameter's type and
\* description; it has an `enum` array exactly when the parameter has
\* enum_values, and the array lists those strings in their given order.
C21_Properties ==
    (is_some(tool) /\ is_ok(unwrap(tool))) =>
        \A properties \in EmittedProperties :
            /\ DOMAIN properties = keys(unwrap(tool).val.parameters)
            /\ \A n \in DOMAIN properties :
                  LET param == unwrap(tool).val.parameters.map[n]
                  IN  /\ properties[n].type = param.parameter_type
                      /\ properties[n].description = param.description
                      /\ "enum" \in DOMAIN properties[n] <=> param.enum_values # None
                      /\ param.enum_values # None => properties[n].enum = param.enum_values[1]
                      /\ DOMAIN properties[n] \subseteq {"type", "description", "enum"}

\* both formats of a tool with an enum parameter and a plain one
C21_Witness ==
    /\ is_some(tool) /\ is_ok(unwrap(tool))
    /\ is_some(anthropic_format) /\ is_some(openai_format)
    /\ \E n, k \in keys(unwrap(tool).val.parameters) :
          /\ unwrap(tool).val.parameters.map[n].enum_values # None
          /\ unwrap(tool).val.parameters.map[k].enum_values = None
          /\ unwrap(openai_format).function.parameters.properties[n].enum = <<"celsius", "fahrenheit">>
          /\ "enum" \notin DOMAIN unwrap(anthropic_format).input_schema.properties[k]

\* C28: for every built Tool, with or without parameters and with or without
\* one named "location", and for both vendor formats, every name listed in
\* the emitted `required` array is a key of the emitted `properties` object.
C28_RequiredAreProperties ==
    /\ is_some(anthropic_format) =>
          Range(unwrap(anthropic_format).input_schema.required)
              \subseteq DOMAIN unwrap(anthropic_format).input_schema.properties
    /\ is_some(openai_format) =>
          Range(unwrap(openai_format).function.parameters.required)
              \subseteq DOMAIN unwrap(openai_format).function.parameters.properties

----------------------------------------------------------------------------
(* Properties of content blocks and of tool call arguments                 *)

\* the blocks of tools() on the received response
ToolUseIds ==
    IF tools(Received) = None THEN {}
    ELSE {tools(Received)[1][i].id : i \in DOMAIN tools(Received)[1]}

\* C26: an Anthropic content block is classified by its `type` field: type
\* "text" gives a text block and type "tool_use" a tool-use block, whatever
\* other fields the block has; a tool_use block that also has a `text` field
\* is a tool-use block and is counted by tools().
C26_BlockByType ==
    (is_some(response) /\ is_ok(unwrap(response)) /\ Received.variant = "Anthropic") =>
        \A i \in DOMAIN body.content :
            /\ body.content[i].type = "text" => Received.response.content[i].variant = "Text"
            /\ body.content[i].type = "tool_use" =>
                  /\ Received.response.content[i].variant = "ToolUse"
                  /\ body.content[i].id \in ToolUseIds

\* the total number of tool_calls entries over all choices of the body
RECURSIVE CountToolCalls(_)
CountToolCalls(choices) ==
    IF choices = <<>> THEN 0
    ELSE (IF "tool_calls" \in DOMAIN Head(choices).message
          THEN Len(Head(choices).message.tool_calls) ELSE 0) + CountToolCalls(Tail(choices))

\* C30: tools() on an OpenAI response never drops an invocation: a tool call
\* whose `arguments` string is not valid JSON is still returned, with its id
\* and name and with input = JSON null, so the length of the returned
\* sequence is the total number of tool_calls entries over all choices.
C30_ToolsTotal ==
    (Observed("tools") /\ Received.variant = "OpenAI") =>
        /\ (IF Out = None THEN 0 ELSE Len(Out[1])) = CountToolCalls(body.choices)
        /\ Out # None =>
              \A i \in DOMAIN Out[1] :
                  /\ Out[1][i].id = Invocations[i].id
                  /\ Out[1][i].name = Invocations[i].function.name
                  /\ Invocations[i].function.arguments = "not json" => Out[1][i].input = JsonNull

\* a returned tool call whose arguments were not JSON
C30_Witness ==
    /\ Observed("tools") /\ Received.variant = "OpenAI"
    /\ Out # None
    /\ \E i \in DOMAIN Out[1] :
          /\ Invocations[i].function.arguments = "not json"
          /\ Out[1][i] = [id |-> "call_2", name |-> "get_time", input |-> JsonNull]

\* the body is one the parser of the builder's client accepts
Parseable(b) ==
    IF builder.client = "Anthropic" THEN AnthropicShaped(b) \/ OpenAIShaped(b)
    ELSE OpenAIShaped(b)

\* C29: in both vendor clients the status is classified before the body is
\* parsed: with a 4xx or 5xx status even a well-formed vendor response gives
\* ClientError or ServerError and never a response value; with any other status
\* (1xx, 2xx, 3xx alike) the body is parsed into a response value.
C29_StatusBeforeParsing ==
    \A i \in DOMAIN posts :
        LET x == posts[i].exchange
            r == posts[i].result
        IN  ~x.failed =>
              /\ x.status \in 400..499 => (r.tag = "Err" /\ r.err.kind = "ClientError")
              /\ x.status \in 500..599 => (r.tag = "Err" /\ r.err.kind = "ServerError")
              /\ x.status \notin 400..599 =>
                    IF Parseable(TextOf(x))
                    THEN r.tag = "Ok" /\ r.val.variant \in {"Anthropic", "OpenAI"}
                    ELSE r = Err(ResponseParseError)

\* a response value parsed from the body of a 1xx status
C29_Witness ==
    /\ builder.client = "Anthropic"
    /\ Len(posts) = 1
    /\ ~posts[1].exchange.failed /\ posts[1].exchange.status = 101
    /\ posts[1].result.tag = "Ok"

----------------------------------------------------------------------------
(* Properties of the rendered tools and of the order of the checks         *)

\* C22: the rendered document has a `tools` field exactly when add_tool was
\* called; the field is an array with one entry per add_tool call, in call
\* order, each the tool translated by the translator of the builder's own
\* vendor: flat {name, description, input_schema} for Anthropic, a
\* {"type": "function", "function": {...}} envelope for OpenAI.
C22_RenderedTools ==
    \A d \in Documents :
        /\ "tools" \in DOMAIN d <=> tool_adds # <<>>
        /\ "tools" \in DOMAIN d =>
              /\ Len(d.tools) = Len(tool_adds)
              /\ \A i \in DOMAIN tool_adds :
                    IF builder.client = "Anthropic"
                    THEN /\ d.tools[i] = to_anthropic_format(tool_adds[i])
                         /\ DOMAIN d.tools[i] = {"name", "description", "input_schema"}
                         /\ d.tools[i].name = tool_adds[i].name
                    ELSE /\ d.tools[i] = to_openai_format(tool_adds[i])
                         /\ DOMAIN d.tools[i] = {"type", "function"}
                         /\ d.tools[i].type = "function"
                         /\ d.tools[i].function.name = tool_adds[i].name

\* an OpenAI document with two different tools, in the order they were added
C22_Witness ==
    /\ builder.client = "OpenAI"
    /\ Len(tool_adds) = 2 /\ tool_adds[1] # tool_adds[2]
    /\ \E d \in Documents :
          /\ d.tools[1] = to_openai_format(tool_adds[1])
          /\ d.tools[2] = to_openai_format(tool_adds[2])

\* the temperature render_request resolves
ResolvedTemperature == IF builder.temperature = None THEN DEFAULT_TEMP ELSE builder.temperature[1]

\* C27: render_request checks the messages before the temperature, so a
\* builder with no message and a non-finite temperature yields MissingMessages
\* and not InvalidUsage; both checks come before the vendor branch, so their
\* outcome is the same for either vendor.
C27_CheckOrder ==
    \A r \in Outcomes :
        IF user_calls = <<>> THEN r = Err(MissingMessages)
        ELSE IF NonFinite(ResolvedTemperature) THEN r.tag = "Err" /\ r.err.kind = "InvalidUsage"
        ELSE r.tag = "Ok"

\* an Anthropic builder with no message and an infinite temperature, rendered
C27_Witness ==
    /\ builder.client = "Anthropic"
    /\ user_calls = <<>>
    /\ builder.temperature = Some(INFINITY)
    /\ rendered # <<>>
    /\ rendered[1] = Err(MissingMessages)

----------------------------------------------------------------------------
(* Properties of builders that share a client                              *)

\* the builder a thread would hold had it made its calls alone
RECURSIVE Alone(_, _)
Alone(client_type, cs) ==
    IF cs = <<>> THEN RequestBuilder_new(client_type)
    ELSE call_setter(Alone(client_type, SubSeq(cs, 1, Len(cs) - 1)), cs[Len(cs)])

\* C23: under every interleaving of the setter and render steps of builders
\* made from one shared client, each builder's rendered document depends only
\* on its own setter calls and is what the builder would render alone; the
\* client's vendor type and credential are never modified.
C23_NoInterference ==
    [][/\ llm_client' = llm_client
       /\ \A t \in Threads :
             renders'[t] # None =>
                 renders'[t][1] = render_request(Alone(llm_client.client_type, setter_calls'[t]))]_vars

\* both threads have rendered documents, made from different calls
C23_Witness ==
    /\ \A t \in Threads : renders[t] # None /\ renders[t][1].tag = "Ok"
    /\ setter_calls["t1"] # setter_calls["t2"]
    /\ renders["t1"] # renders["t2"]
    /\ Len(setter_calls["t1"]) = 2 /\ Len(setter_calls["t2"]) = 2

----------------------------------------------------------------------------
(* Properties of the Chat Session                                          *)

\* the session as the turn i left it
After(i) == IF i < Len(turns) THEN turns[i + 1].before ELSE session

\* the turns that have ended
Ended == {i \in DOMAIN turns : turns[i].result # None}

\* C24: a turn whose send fails with a render, transport or parse error leaves
\* the transcript and both tallies exactly as they were before the turn, with
\* no user message appended, and the session back in Idle.
C24_AtomicTurn ==
    \A i \in Ended :
        turns[i].result[1].tag = "Err" =>
            /\ After(i).transcript = turns[i].before.transcript
            /\ After(i).input_tokens_tally = turns[i].before.input_tokens_tally
            /\ After(i).output_tokens_tally = turns[i].before.output_tokens_tally
            /\ After(i).state = "Idle"

\* a transport failure in the turn after a successful one
C24_Witness ==
    /\ Len(turns) = 2 /\ Ended = {1, 2}
    /\ turns[1].result[1].tag = "Ok"
    /\ turns[2].result = Some(Err(RequestError))
    /\ Len(session.transcript) = 2
    /\ session.state = "Idle"

\* C25: each successful turn appends exactly two messages, the user message
\* and then the reply, after all earlier messages and without altering them,
\* and each tally grows by the usage of the turn and never decreases.
C25_TurnsAppend ==
    \A i \in Ended :
        LET before == turns[i].before
            n == Len(before.transcript)
        IN  /\ SubSeq(After(i).transcript, 1, n) = before.transcript
            /\ After(i).input_tokens_tally >= before.input_tokens_tally
            /\ After(i).output_tokens_tally >= before.output_tokens_tally
            /\ turns[i].result[1].tag = "Ok" =>
                  LET reply == turns[i].result[1].val
                  IN  /\ Len(After(i).transcript) = n + 2
                      /\ After(i).transcript[n + 1] = Message("user", turns[i].text)
                      /\ After(i).transcript[n + 2] = Message(role(reply), first_message(reply))
                      /\ After(i).input_tokens_tally =
                            before.input_tokens_tally + usage(reply).input_tokens
                      /\ After(i).output_tokens_tally =
                            before.output_tokens_tally + usage(reply).output_tokens

\* two successful turns: user, assistant, user, assistant, and larger tallies
C25_Witness ==
    /\ Len(turns) = 2 /\ Ended = {1, 2}
    /\ Len(session.transcript) = 4
    /\ [i \in 1..4 |-> session.transcript[i].role] = <<"user", "assistant", "user", "assistant">>
    /\ session.input_tokens_tally > turns[2].before.input_tokens_tally
    /\ session.output_tokens_tally > turns[2].before.output_tokens_tally
    /\ turns[2].before.input_tokens_tally > 0

====
